---------------------------- MODULE Spec2Model ----------------------------
(***************************************************************************)
(* Model of majsoul-stats (src/src/main.rs): the request handler           *)
(* handle_player_stats_request, the cursor pagination loop of              *)
(* fetch_complete_match_history, the per-record rank reconstruction of     *)
(* parse_match_data and the mode classification GameType::from.            *)
(*                                                                         *)
(* Times are seconds since the epoch, as chrono's timestamp() and          *)
(* DateTime::from_timestamp(_, 0) use them.  The upstream service is the   *)
(* environment: it stores a finite history of records in descending        *)
(* start-time order and answers a page request with the newest records     *)
(* that are not newer than the cursor and not older than 2010-01-01,       *)
(* at most `limit` of them.                                                *)
(***************************************************************************)
EXTENDS Integers, Sequences, FiniteSets, TLC

VARIABLES
    pc,                 \* position of the handler: start, fetch, render, done, panicked
    upstream,           \* the records the upstream service holds for the player
    now,                \* chrono::Utc::now().timestamp() at the time of the request
    overflow_checks,    \* build profile: TRUE = arithmetic overflow panics (debug)
    player_id,          \* result of find_player_id_by_name; the GameRule of the
                        \* endpoint only selects the base URL and the mode list
                        \* of the requests and is not part of the state
    current_timestamp,  \* the cursor of fetch_complete_match_history
    all_matches,        \* the accumulator of fetch_complete_match_history
    game_history,       \* what the handler received from fetch_complete_match_history
    response,           \* what the client receives
    page_requests,      \* number of player_records requests issued so far
    last_page_len,      \* raw length of the last page received
    failure             \* why the request failed, if it did

vars == <<pc, upstream, now, overflow_checks, player_id, current_timestamp,
          all_matches, game_history, response, page_requests, last_page_len,
          failure>>

(***************************************************************************)
(* Program constants                                                       *)
(***************************************************************************)
\* limit=500 of the request, and the length the page is compared with
PAGE_LIMIT == 500

\* The floor literal of the request is 1262304000000, which is beyond the
\* integers of the model checker; it is kept as literal / 1000.
FLOOR_LITERAL_DIV_1000 == 1262304000

\* x >= 1262304000000, for a non-negative integer x
AtLeastFloorLiteral(x) == (x \div 1000) >= FLOOR_LITERAL_DIV_1000

\* 2010-01-01T00:00:00Z in seconds: the floor literal read as milliseconds
Floor2010Seconds == FLOOR_LITERAL_DIV_1000

\* 2^64 = 60 * 307445734561825860 + 16; the quotient in limbs of 10^9
U64_WRAP_DIV60_HI == 307445734
U64_WRAP_DIV60_LO == 561825860
U64_WRAP_MOD60 == 16
SECONDS_PER_MINUTE == 60

Panic == [panicked |-> TRUE]

\* the handler has no Vec<GameMatch> (yet, or at all)
NoHistory == [returned |-> FALSE, matches |-> <<>>]
\* fetch_complete_match_history returned Ok(matches)
OkHistory(matches) == [returned |-> TRUE, matches |-> matches]

\* status 0: the client received no response
NoResponse == [status |-> 0, shown |-> FALSE, history |-> <<>>]
\* Err(status), or a template that failed to render
StatusOnly(status) == [status |-> status, shown |-> FALSE, history |-> <<>>]
\* Html(html_content) of the template over game_history
HtmlPage(matches) == [status |-> 200, shown |-> TRUE, history |-> matches]

(***************************************************************************)
(* GameRule, GameType                                                      *)
(***************************************************************************)
GameRules == {"ThreePlayer", "FourPlayer"}

supported_mode_ids(rule) ==
    IF rule = "ThreePlayer" THEN {21, 22, 23, 24, 25, 26}
                            ELSE {8, 9, 11, 12, 15, 16}

GameTypeOf(rule, category) == [panicked |-> FALSE, rule |-> rule, category |-> category]

\* a classification whose last arm is a default value instead of a failure
GameTypeFromWithDefault(mode_id) ==
    CASE mode_id = 21 -> GameTypeOf("ThreePlayer", "GoldEast")
      [] mode_id = 22 -> GameTypeOf("ThreePlayer", "Gold")
      [] mode_id = 23 -> GameTypeOf("ThreePlayer", "JadeEast")
      [] mode_id = 24 -> GameTypeOf("ThreePlayer", "Jade")
      [] mode_id = 25 -> GameTypeOf("ThreePlayer", "ThroneEast")
      [] mode_id = 26 -> GameTypeOf("ThreePlayer", "Throne")
      [] mode_id = 8  -> GameTypeOf("FourPlayer", "GoldEast")
      [] mode_id = 9  -> GameTypeOf("FourPlayer", "Gold")
      [] mode_id = 11 -> GameTypeOf("FourPlayer", "JadeEast")
      [] mode_id = 12 -> GameTypeOf("FourPlayer", "Jade")
      [] mode_id = 15 -> GameTypeOf("FourPlayer", "ThroneEast")
      [] OTHER -> GameTypeOf("FourPlayer", "Throne")

\* impl From<u64> for GameType; the last arm is unreachable!(), a panic
GameTypeFrom(mode_id) ==
    CASE mode_id = 21 -> GameTypeOf("ThreePlayer", "GoldEast")
      [] mode_id = 22 -> GameTypeOf("ThreePlayer", "Gold")
      [] mode_id = 23 -> GameTypeOf("ThreePlayer", "JadeEast")
      [] mode_id = 24 -> GameTypeOf("ThreePlayer", "Jade")
      [] mode_id = 25 -> GameTypeOf("ThreePlayer", "ThroneEast")
      [] mode_id = 26 -> GameTypeOf("ThreePlayer", "Throne")
      [] mode_id = 8  -> GameTypeOf("FourPlayer", "GoldEast")
      [] mode_id = 9  -> GameTypeOf("FourPlayer", "Gold")
      [] mode_id = 11 -> GameTypeOf("FourPlayer", "JadeEast")
      [] mode_id = 12 -> GameTypeOf("FourPlayer", "Jade")
      [] mode_id = 15 -> GameTypeOf("FourPlayer", "ThroneEast")
      [] mode_id = 16 -> GameTypeOf("FourPlayer", "Throne")
      [] OTHER -> Panic

(***************************************************************************)
(* parse_match_data                                                        *)
(***************************************************************************)
\* a ranking keyed by point change: a participant whose point change is
\* already present is lost
InsertByPtDescKeyed(sorted, x) ==
    IF \E i \in 1..Len(sorted) : sorted[i].gradingScore = x.gradingScore
    THEN sorted
    ELSE LET k == Cardinality({i \in 1..Len(sorted) : sorted[i].gradingScore > x.gradingScore})
         IN  SubSeq(sorted, 1, k) \o <<x>> \o SubSeq(sorted, k + 1, Len(sorted))

\* the comparator with its operands the other way round: ascending order
InsertByPtAsc(sorted, x) ==
    LET k == Cardinality({i \in 1..Len(sorted) : sorted[i].gradingScore <= x.gradingScore})
    IN  SubSeq(sorted, 1, k) \o <<x>> \o SubSeq(sorted, k + 1, Len(sorted))

\* One step of the stable sort: x goes after every element that does not
\* compare greater than it under |a, b| b.3.cmp(&a.3), i.e. after every
\* element whose gradingScore is >= its own.
InsertByPtDesc(sorted, x) ==
    LET k == Cardinality({i \in 1..Len(sorted) : sorted[i].gradingScore >= x.gradingScore})
    IN  SubSeq(sorted, 1, k) \o <<x>> \o SubSeq(sorted, k + 1, Len(sorted))

RECURSIVE SortByPtDesc(_)
\* player_data.sort_by(|a, b| b.3.cmp(&a.3)): a stable sort, descending
SortByPtDesc(s) ==
    IF s = <<>> THEN <<>>
    ELSE InsertByPtDesc(SortByPtDesc(SubSeq(s, 1, Len(s) - 1)), s[Len(s)])

\* .iter().position(|player| player.0 == target).map(|p| p + 1); 0 stands for None
PositionOf(player_data, target) ==
    LET hits == {i \in 1..Len(player_data) : player_data[i].accountId = target}
    IN  IF hits = {} THEN 0 ELSE CHOOSE i \in hits : \A j \in hits : i <= j

\* (raw_end_time - raw_start_time) / 60 on u64, as limbs [hi, lo] of 10^9.
\* raw_end_time < raw_start_time overflows the subtraction: a panic when the
\* build checks overflow, the value modulo 2^64 otherwise.
DurationMinutes(raw_start_time, raw_end_time, checks) ==
    IF raw_end_time >= raw_start_time
    THEN [panicked |-> FALSE, hi |-> 0,
          lo |-> (raw_end_time - raw_start_time) \div SECONDS_PER_MINUTE]
    ELSE IF checks THEN Panic
    ELSE LET d == raw_start_time - raw_end_time
             k == IF d <= U64_WRAP_MOD60 THEN 0
                  ELSE ((d - U64_WRAP_MOD60) + (SECONDS_PER_MINUTE - 1)) \div SECONDS_PER_MINUTE
         IN  [panicked |-> FALSE, hi |-> U64_WRAP_DIV60_HI, lo |-> U64_WRAP_DIV60_LO - k]

\* The closure of parse_match_data applied to one record.  The fields
\* record_id and player_data of the result are not fields of GameMatch: they
\* remember which record the match came from and the sorted tuples that
\* player_results was projected from.
ParseRecord(match_data, target_player_id, checks) ==
    LET player_data == SortByPtDesc(match_data.players)
        position    == PositionOf(player_data, target_player_id)
        duration    == DurationMinutes(match_data.startTime, match_data.endTime, checks)
        game_type   == GameTypeFrom(match_data.modeId)
    IN  IF position = 0 \/ duration.panicked \/ game_type.panicked
        THEN Panic
        ELSE [panicked |-> FALSE,
              game_match |->
                 [record_id        |-> match_data.id,
                  player_rank      |-> position,
                  start_time       |-> match_data.startTime,
                  duration_minutes |-> [hi |-> duration.hi, lo |-> duration.lo],
                  game_type        |-> [rule |-> game_type.rule,
                                        category |-> game_type.category],
                  pt_change        |-> player_data[position].gradingScore,
                  player_data      |-> player_data,
                  player_results   |-> [i \in 1..Len(player_data) |->
                                          [name |-> player_data[i].nickname,
                                           final_score |-> player_data[i].score]]]]

\* parse_match_data: every record in order; any panic aborts the whole call
ParseMatchData(api_response, target_player_id, checks) ==
    LET parsed == [i \in 1..Len(api_response) |->
                      ParseRecord(api_response[i], target_player_id, checks)]
    IN  IF \E i \in 1..Len(parsed) : parsed[i].panicked
        THEN [panicked |-> TRUE, matches |-> <<>>]
        ELSE [panicked |-> FALSE,
              matches |-> [i \in 1..Len(parsed) |-> parsed[i].game_match]]

(***************************************************************************)
(* The upstream service                                                    *)
(***************************************************************************)
InWindow(r, cursor) == r.startTime <= cursor /\ r.startTime >= Floor2010Seconds

\* GET {base}/player_records/{id}/{cursor}/1262304000000?limit=500&...&descending=true
PlayerRecords(cursor) ==
    LET eligible == SelectSeq(upstream, LAMBDA r : InWindow(r, cursor))
    IN  SubSeq(eligible, 1, IF Len(eligible) < PAGE_LIMIT THEN Len(eligible) ELSE PAGE_LIMIT)

(***************************************************************************)
(* fetch_complete_match_history                                            *)
(***************************************************************************)
\* the cursor of a loop that forgets to step below the last match
NextCursorNoStep(batch_matches) == batch_matches[Len(batch_matches)].start_time

\* batch_matches.last().unwrap().start_time.timestamp() - 1
NextCursor(batch_matches) == batch_matches[Len(batch_matches)].start_time - 1

\* a loop that breaks on a failed request and returns what it has
OnRequestErrorKeepPartial(accumulated) == OkHistory(accumulated)

\* `?` on the request or on the JSON decoding: the function returns the
\* error and its accumulator is dropped
OnRequestError(accumulated) == NoHistory

\* One iteration of the loop, from the request to the next request or to the
\* end of the function.  outcome is what the transport delivers.
LoopIteration(outcome) ==
    /\ page_requests' = page_requests + 1
    /\ IF outcome = "error"
       THEN LET result == OnRequestError(all_matches)
            IN  /\ failure' = "transport"
                /\ all_matches' = <<>>
                /\ game_history' = result
                /\ UNCHANGED <<current_timestamp, last_page_len>>
                \* handle_player_stats_request: .map_err(|_| INTERNAL_SERVER_ERROR)?
                /\ IF result.returned
                   THEN pc' = "render" /\ UNCHANGED response
                   ELSE pc' = "done" /\ response' = StatusOnly(500)
       ELSE IF outcome = "not_array"
       THEN \* response.as_array().unwrap() in parse_match_data
            /\ pc' = "panicked"
            /\ failure' = "not_array"
            /\ all_matches' = <<>>
            /\ UNCHANGED <<current_timestamp, last_page_len, game_history, response>>
       ELSE LET page  == PlayerRecords(current_timestamp)
                batch == ParseMatchData(page, player_id, overflow_checks)
            IN  /\ last_page_len' = Len(page)
                /\ IF batch.panicked
                   THEN /\ pc' = "panicked"
                        /\ failure' = "record"
                        /\ all_matches' = <<>>
                        /\ UNCHANGED <<current_timestamp, game_history, response>>
                   ELSE IF batch.matches = <<>>
                   THEN \* break; Ok(all_matches)
                        /\ pc' = "render"
                        /\ game_history' = OkHistory(all_matches)
                        /\ UNCHANGED <<current_timestamp, all_matches, response, failure>>
                   ELSE /\ current_timestamp' = NextCursor(batch.matches)
                        /\ all_matches' = all_matches \o batch.matches
                        /\ UNCHANGED <<response, failure>>
                        /\ IF Len(page) < PAGE_LIMIT
                           THEN /\ pc' = "render"
                                /\ game_history' = OkHistory(all_matches')
                           ELSE /\ pc' = "fetch"
                                /\ UNCHANGED game_history

(***************************************************************************)
(* Inputs                                                                  *)
(***************************************************************************)
MaxPlayers == 3          \* participants of a freely chosen record
MaxSmallHistory == 2     \* records of a history that holds a freely chosen record
MaxPageRequests == 5     \* cap on the requests of one call

NowChoices == {1762300800}
SearchIds == {42}
AccountIds == {42, 7, 8}
PtChoices == {-10, 0, 10}
ModeChoices == 7..27
DurationChoices == {2400, 2399, 59, 0, -1, -16, -17, -2400}

Player(slot, id, pt) ==
    [accountId |-> id, nickname |-> "p" \o ToString(slot),
     score |-> 25000 + 100 * slot, gradingScore |-> pt]

RECURSIVE PlayerLists(_)
\* every list of n participants
PlayerLists(n) ==
    IF n = 0 THEN {<<>>}
    ELSE {Append(l, Player(n, id, pt)) :
             l \in PlayerLists(n - 1), id \in AccountIds, pt \in PtChoices}

DefaultPlayers == <<Player(1, 7, 10), Player(2, 42, 0), Player(3, 8, -10)>>
DefaultShape == [players |-> DefaultPlayers, modeId |-> 22, dur |-> 2400]

\* shapes of the one freely chosen record of a small history
FreeShapes ==
    {[DefaultShape EXCEPT !.players = l] :
        l \in UNION {PlayerLists(n) : n \in 0..MaxPlayers}}
    \cup {[DefaultShape EXCEPT !.modeId = m] : m \in ModeChoices}
    \cup {[DefaultShape EXCEPT !.dur = d] : d \in DurationChoices}

\* shapes of the one special record of a long history
SpecialShapes ==
    {DefaultShape,
     [DefaultShape EXCEPT !.modeId = 10],
     [DefaultShape EXCEPT !.players = <<Player(1, 7, 10), Player(2, 8, -10)>>],
     [DefaultShape EXCEPT !.dur = -2400]}

\* A history of K records in descending start-time order: the newest starts
\* at top, record i + 1 starts one second before record i, or at the same
\* second when i is in ties.  The record at pos has the given shape.
MakeHistory(K, ties, top, shape, pos) ==
    [i \in 1..K |->
        LET st == top - (i - 1) + Cardinality({j \in ties : j < i})
            sh == IF i = pos THEN shape ELSE DefaultShape
        IN  [id |-> i, startTime |-> st, endTime |-> st + sh.dur,
             modeId |-> sh.modeId, players |-> sh.players]]

HistorySizes == {0, 1, PAGE_LIMIT - 1, PAGE_LIMIT, PAGE_LIMIT + 1,
                 2 * PAGE_LIMIT, 2 * PAGE_LIMIT + 1}
TieSlots == {PAGE_LIMIT - 1, PAGE_LIMIT, 2 * PAGE_LIMIT}
TopChoices(t) == {t + 1, t, Floor2010Seconds + 1}

\* long histories: every way of falling across the page boundaries, every
\* position relative to the window, and a special record on the second page
LongHistories(t) ==
    {MakeHistory(K, ties, t, DefaultShape, 0) :
        K \in HistorySizes, ties \in SUBSET TieSlots}
    \cup {MakeHistory(K, {}, top, DefaultShape, 0) :
        K \in HistorySizes, top \in TopChoices(t)}
    \cup {MakeHistory(K, {}, t, shape, PAGE_LIMIT + 1) :
        K \in {PAGE_LIMIT + 1, 2 * PAGE_LIMIT + 1}, shape \in SpecialShapes}

SmallHistories(t) ==
    {MakeHistory(K, ties, top, shape, pos) :
        K \in 1..MaxSmallHistory, ties \in {{}}, top \in {t},
        shape \in FreeShapes, pos \in {1}}

Init ==
    /\ pc = "start"
    /\ now \in NowChoices
    /\ upstream \in LongHistories(now) \cup SmallHistories(now)
    /\ overflow_checks \in BOOLEAN
    /\ player_id = 0
    /\ current_timestamp = 0
    /\ all_matches = <<>>
    /\ game_history = NoHistory
    /\ response = NoResponse
    /\ page_requests = 0
    /\ last_page_len = 0
    /\ failure = "none"

(***************************************************************************)
(* handle_player_stats_request                                             *)
(***************************************************************************)
\* find_player_id_by_name and .map_err(|_| StatusCode::NOT_FOUND)?, then the
\* first two statements of fetch_complete_match_history
FindPlayer ==
    /\ pc = "start"
    /\ \E outcome \in {"error", "empty", "no_id", "found"} :
         CASE outcome \in {"error", "empty"} ->
                /\ pc' = "done"
                /\ response' = StatusOnly(404)
                /\ failure' = "not_found"
                /\ UNCHANGED <<player_id, current_timestamp, all_matches>>
           [] outcome = "no_id" ->
                \* .expect("Valid player ID")
                /\ pc' = "panicked"
                /\ failure' = "no_id"
                /\ UNCHANGED <<player_id, current_timestamp, all_matches, response>>
           [] outcome = "found" ->
                /\ \E id \in SearchIds : player_id' = id
                /\ current_timestamp' = now
                /\ all_matches' = <<>>
                /\ pc' = "fetch"
                /\ UNCHANGED <<response, failure>>
    /\ UNCHANGED <<upstream, now, overflow_checks, game_history, page_requests,
                   last_page_len>>

FetchPage ==
    /\ pc = "fetch"
    /\ page_requests < MaxPageRequests
    /\ \E outcome \in {"error", "not_array", "page"} : LoopIteration(outcome)
    /\ UNCHANGED <<upstream, now, overflow_checks, player_id>>

\* UserStatsTemplate, HtmlTemplate::into_response
Render ==
    /\ pc = "render"
    /\ pc' = "done"
    /\ \E rendered \in BOOLEAN :
         response' = IF rendered THEN HtmlPage(game_history.matches)
                                 ELSE StatusOnly(500)
    /\ UNCHANGED <<upstream, now, overflow_checks, player_id, current_timestamp,
                   all_matches, game_history, page_requests, last_page_len, failure>>

Next == FindPlayer \/ FetchPage \/ Render

Spec == Init /\ [][Next]_vars

(***************************************************************************)
(* Notions the claims are stated with                                      *)
(***************************************************************************)
KnownModeIds == supported_mode_ids("ThreePlayer") \cup supported_mode_ids("FourPlayer")
GameCategories == {"Gold", "GoldEast", "Jade", "JadeEast", "Throne", "ThroneEast"}

\* the record a match was parsed from
RecordOf(m) == upstream[m.record_id]

\* the matches of the player between the floor and the initial cursor
Window == SelectSeq(upstream, LAMBDA r : InWindow(r, now))

\* the page whose parsing panicked: the cursor is unchanged by a panic
FailedPage == PlayerRecords(current_timestamp)

ViolatesContract(r) ==
    \/ r.modeId \notin KnownModeIds
    \/ \A i \in 1..Len(r.players) : r.players[i].accountId # player_id

NonIncreasing(matches) ==
    \A i \in 1..(Len(matches) - 1) : matches[i].start_time >= matches[i + 1].start_time

\* s holds exactly the elements of t, each as often as t does
IsPermutation(s, t) ==
    /\ Len(s) = Len(t)
    /\ \A x \in {t[i] : i \in 1..Len(t)} :
          Cardinality({i \in 1..Len(s) : s[i] = x}) = Cardinality({i \in 1..Len(t) : t[i] = x})

\* every match the loop has accumulated satisfies P
AllAccumulated(P(_)) == \A i \in 1..Len(all_matches) : P(all_matches[i])

(***************************************************************************)
(* C1: when fetch_complete_match_history returns, it returns exactly the   *)
(* matches of the player between the floor and the initial cursor, each    *)
(* once, in non-increasing start-time order, however the matches fall      *)
(* across the pages and also when two matches on either side of a page     *)
(* boundary start at the same second.                                      *)
(***************************************************************************)
C1_ReturnsWholeHistory ==
    game_history.returned =>
        LET got == game_history.matches
        IN  /\ Len(got) = Len(Window)
            /\ {got[i].record_id : i \in 1..Len(got)} = {Window[i].id : i \in 1..Len(Window)}
            /\ NonIncreasing(got)

(***************************************************************************)
(* C2: the loop of fetch_complete_match_history stops.  Every step of the  *)
(* loop is one page request; a request that does not end the loop leaves   *)
(* strictly fewer matches at or below the cursor; the number of requests   *)
(* never exceeds (matches in the window) / 500 + 1, so the cap on requests *)
(* is never what stops the loop; and when the function returns its         *)
(* matches, the last page was empty or shorter than 500.                   *)
(***************************************************************************)
RemainingBelowCursor == Len(SelectSeq(upstream, LAMBDA r : InWindow(r, current_timestamp)))

C2_LoopTerminates ==
    /\ [][pc = "fetch" =>
            /\ page_requests' = page_requests + 1
            /\ pc' = "fetch" => RemainingBelowCursor' < RemainingBelowCursor]_vars
    /\ [](page_requests <= (Len(Window) \div PAGE_LIMIT) + 1)
    /\ [](pc = "fetch" => page_requests < MaxPageRequests)
    /\ [](game_history.returned => last_page_len < PAGE_LIMIT)

C2_Witness ==
    /\ pc = "render"
    /\ page_requests >= 3
    /\ Len(game_history.matches) > 2 * PAGE_LIMIT

(***************************************************************************)
(* C3: the cursor of every page request after the first is strictly less   *)
(* than the start time of every match accumulated so far.                  *)
(***************************************************************************)
C3_CursorBelowAccumulated ==
    (pc = "fetch" /\ page_requests >= 1) =>
        /\ all_matches # <<>>
        /\ \A i \in 1..Len(all_matches) : current_timestamp < all_matches[i].start_time

C3_Witness ==
    /\ pc = "fetch"
    /\ page_requests >= 2
    /\ Len(all_matches) = 2 * PAGE_LIMIT

(***************************************************************************)
(* C4: when a page request fails in transport or decoding, the handler     *)
(* answers 500 without any history, nothing accumulated reaches it, and    *)
(* no further page request is issued.                                      *)
(***************************************************************************)
C4_RequestErrorAborts ==
    /\ [](failure = "transport" =>
            /\ pc = "done"
            /\ ~game_history.returned
            /\ response = StatusOnly(500))
    /\ [][failure = "transport" => page_requests' = page_requests]_vars

C4_Witness ==
    /\ failure = "transport"
    /\ page_requests = 3
    /\ response.status = 500

(***************************************************************************)
(* C5: when a fetched page holds a record with an unknown mode identifier  *)
(* or without the target player, no history is shown and the client        *)
(* receives the generic server error (500).                                *)
(***************************************************************************)
C5_ViolationIsServerError ==
    (failure = "record" /\ \E i \in 1..Len(FailedPage) : ViolatesContract(FailedPage[i])) =>
        /\ ~response.shown
        /\ response.status = 500

(***************************************************************************)
(* C6: the rank of the target player is in 1..N, N the number of           *)
(* participants of the record, and the ranking holds every participant at  *)
(* exactly one of the positions 1..N, also with equal point changes.       *)
(***************************************************************************)
RankIsValid(m) ==
    /\ m.player_rank \in 1..Len(RecordOf(m).players)
    /\ Len(m.player_results) = Len(RecordOf(m).players)
    /\ IsPermutation(m.player_data, RecordOf(m).players)

C6_RankValid == AllAccumulated(RankIsValid)

C6_Witness ==
    \E i \in 1..Len(all_matches) :
        LET d == all_matches[i].player_data
        IN  /\ Len(d) = 3
            /\ d[1].gradingScore = d[2].gradingScore
            /\ d[2].gradingScore = d[3].gradingScore
            /\ all_matches[i].player_rank = 3

(***************************************************************************)
(* C7: each of the 12 mode identifiers is classified as a (rule, category) *)
(* pair that no other identifier is classified as, and a record with any   *)
(* other identifier never yields a match.                                  *)
(***************************************************************************)
ClassifiedApart(m) ==
    /\ RecordOf(m).modeId \in KnownModeIds
    /\ m.game_type.rule \in GameRules
    /\ m.game_type.category \in GameCategories
    /\ (RecordOf(m).modeId \in supported_mode_ids("ThreePlayer"))
          <=> (m.game_type.rule = "ThreePlayer")
    /\ \A other \in KnownModeIds \ {RecordOf(m).modeId} :
          GameTypeFrom(other) # GameTypeOf(m.game_type.rule, m.game_type.category)
    /\ (RecordOf(all_matches[1]).modeId = RecordOf(m).modeId)
          <=> (all_matches[1].game_type = m.game_type)

C7_ClassificationDistinct ==
    /\ AllAccumulated(ClassifiedApart)
    /\ \A i \in 1..Len(upstream) :
          (pc = "render" /\ upstream[i].modeId \notin KnownModeIds)
             => \A j \in 1..Len(game_history.matches) :
                   game_history.matches[j].record_id # i

C7_Witness ==
    /\ Len(all_matches) = 2
    /\ all_matches[1].game_type = [rule |-> "FourPlayer", category |-> "Throne"]
    /\ all_matches[2].game_type = [rule |-> "ThreePlayer", category |-> "Gold"]

(***************************************************************************)
(* C8: player_results holds the participants of the record in descending   *)
(* order of point change, and player_rank is the position of the target    *)
(* player in that list.                                                    *)
(***************************************************************************)
ResultsRanked(m) ==
    LET d == m.player_data
    IN  /\ IsPermutation(d, RecordOf(m).players)
        /\ \A i \in 1..(Len(d) - 1) : d[i].gradingScore >= d[i + 1].gradingScore
        /\ Len(m.player_results) = Len(d)
        /\ \A i \in 1..Len(d) :
              m.player_results[i] = [name |-> d[i].nickname, final_score |-> d[i].score]
        /\ d[m.player_rank].accountId = player_id
        /\ \A i \in 1..(m.player_rank - 1) : d[i].accountId # player_id
        /\ m.pt_change = d[m.player_rank].gradingScore

C8_ResultsSortedByPtChange == AllAccumulated(ResultsRanked)

C8_Witness ==
    \E i \in 1..Len(all_matches) :
        LET m == all_matches[i]
        IN  /\ Len(m.player_results) = 3
            /\ m.player_results[1].name = "p3"
            /\ m.player_results[3].name = "p1"
            /\ m.player_rank = 2

(***************************************************************************)
(* C9: no returned match starts before 2010-01-01T00:00:00Z, the floor     *)
(* 1262304000000 of the request being in the unit of the cursor and of     *)
(* the startTime values: every returned start time is at least the floor.  *)
(***************************************************************************)
C9_FloorInCursorUnit ==
    \A i \in 1..Len(game_history.matches) :
        /\ game_history.matches[i].start_time >= Floor2010Seconds
        /\ game_history.matches[i].start_time <= now
        /\ AtLeastFloorLiteral(game_history.matches[i].start_time)

(***************************************************************************)
(* C10: duration_minutes is the floor quotient of (endTime - startTime) by *)
(* 60 for every record, and a record whose endTime is not after its        *)
(* startTime is parsed like any other, with its zero or negative duration. *)
(***************************************************************************)
DurationIsQuotient(m) ==
    /\ m.duration_minutes.hi = 0
    /\ m.duration_minutes.lo = (RecordOf(m).endTime - RecordOf(m).startTime) \div 60

C10_DurationFloorQuotient ==
    /\ AllAccumulated(DurationIsQuotient)
    /\ failure = "record" => \E i \in 1..Len(FailedPage) : ViolatesContract(FailedPage[i])

=============================================================================
